---- MODULE Spec2Model ----
(***************************************************************************)
(* Model of faker_clickstream/clickstream.py: the session generator        *)
(* ClickstreamProvider.session_clickstream, the weighted draw it uses, and *)
(* the interval parser _parse_time_interval.                               *)
(*                                                                         *)
(* Strings that the code inspects character by character (the start_time   *)
(* argument) are sequences of one-character strings.  Times are whole      *)
(* seconds.  Every random draw of the code is a \E over the set the draw   *)
(* ranges over.                                                            *)
(***************************************************************************)
EXTENDS Integers, Sequences, FiniteSets, TLC

(***************************************************************************)
(* Bounds of the model.                                                    *)
(***************************************************************************)
\* longest interval string handed to _parse_time_interval on its own
MaxLen == 3
\* largest rand_session_max_size a caller passes
MaxSessionSize == 2

(***************************************************************************)
(* _parse_time_interval (clickstream.py 170-198)                           *)
(***************************************************************************)
NL == "\n"
Digits == {"0", "1"}
Signs == {"+", "-"}
Units == {"s", "m", "h", "d"}
\* the characters interval strings are built from: the regex's three classes,
\* a letter outside all of them, and the newline that '$' treats specially
Chars == Digits \cup Signs \cup Units \cup {"x", NL}

RECURSIVE StringsOfLen(_)
StringsOfLen(n) ==
    IF n = 0 THEN {<<>>}
    ELSE {Append(w, c) : w \in StringsOfLen(n - 1), c \in Chars}

Strings == UNION {StringsOfLen(n) : n \in 0..MaxLen}

DigitValue(c) == IF c = "1" THEN 1 ELSE 0

\* int(value): the decimal value of a non-empty digit string
RECURSIVE int(_)
int(ds) ==
    IF Len(ds) = 0 THEN 0
    ELSE 10 * int(SubSeq(ds, 1, Len(ds) - 1)) + DigitValue(ds[Len(ds)])

unit_multipliers(u) ==
    CASE u = "s" -> 1
      [] u = "m" -> 60
      [] u = "h" -> 3600
      [] u = "d" -> 86400

\* What '$' leaves for the rest of the pattern to consume: without re.MULTILINE
\* it matches at the end of the string and also just before a newline that is
\* the string's last character.
DollarBody(str) ==
    IF Len(str) > 0 /\ str[Len(str)] = NL
    THEN {str, SubSeq(str, 1, Len(str) - 1)}
    ELSE {str}

\* ^([+-]?)(\d+)([smhd]) consuming the whole of body
FullMatch(body) ==
    LET n == Len(body)
        signed == n > 0 /\ body[1] \in Signs
        first == IF signed THEN 2 ELSE 1
    IN  /\ n >= first + 1
        /\ body[n] \in Units
        /\ \A i \in first..(n - 1) : body[i] \in Digits

\* re.match(r'^([+-]?)(\d+)([smhd])$', interval): the groups, or no match
re_match(interval) ==
    LET bodies == {b \in DollarBody(interval) : FullMatch(b)}
    IN  IF bodies = {} THEN [matched |-> FALSE]
        ELSE LET body == CHOOSE b \in bodies : TRUE
                 n == Len(body)
                 signed == body[1] \in Signs
             IN  [matched |-> TRUE,
                  sign |-> IF signed THEN body[1] ELSE "",
                  value |-> SubSeq(body, IF signed THEN 2 ELSE 1, n - 1),
                  unit |-> body[n]]

\* the outcome of the call: ValueError raised, or the seconds returned
_parse_time_interval(interval) ==
    LET match == re_match(interval)
    IN  IF ~match.matched
        THEN [raised |-> TRUE, seconds |-> 0]
        ELSE LET value == int(match.value)
                 seconds == value * unit_multipliers(match.unit)
             IN  [raised |-> FALSE,
                  seconds |-> IF match.sign = "-" THEN -seconds ELSE seconds]

(***************************************************************************)
(* The catalogs the module imports (event_constants, mobile_phones, ip,    *)
(* user_agents): data loaded once from outside clickstream.py.  An entry   *)
(* of weighted_events has a name, a popularity weight, the names it        *)
(* depends on and the filter that combines them.                           *)
(***************************************************************************)
EventDefinition(name, popularity, dependsOn, dependencyFilter) ==
    [name |-> name, popularity |-> popularity,
     dependsOn |-> dependsOn, dependencyFilter |-> dependencyFilter]

\* a catalog about identity: login, logout, guest checkout
AuthCatalog ==
    << EventDefinition("Login", 3, <<>>, "all"),
       EventDefinition("Logout", 2, <<>>, "all"),
       EventDefinition("CheckoutAsGuest", 1, <<"Search">>, "all") >>

\* a catalog about the cart
CartCatalog ==
    << EventDefinition("Search", 5, <<>>, "all"),
       EventDefinition("AddToCart", 2, <<>>, "all"),
       EventDefinition("DeleteFromCart", 1, <<"AddToCart", "Search">>, "any") >>

\* the tables weighted_events may have been loaded with
Catalogs == {AuthCatalog, CartCatalog}

\* a catalog about orders
OrderCatalog ==
    << EventDefinition("Checkout", 2, <<>>, "all"),
       EventDefinition("CompleteOrder", 1, <<"Checkout", "CheckoutAsGuest">>, "any"),
       EventDefinition("CheckOrderStatus", 1, <<>>, "all") >>

\* a catalog about quantities
QuantityCatalog ==
    << EventDefinition("IncreaseQuantity", 2, <<>>, "all"),
       EventDefinition("DeleteFromCart", 1, <<"IncreaseQuantity">>, "all") >>

OrderCatalogs == {OrderCatalog, QuantityCatalog}

mobile_phones ==
    << [model_name |-> "Galaxy S21", brand_name |-> "Samsung", os |-> "Android",
        popularity |-> 1] >>
ip_list == {"10.0.0.1", "10.0.0.2"}
user_agents == {"Mozilla", "Opera"}
channel == {"Direct", "Referral"}
\* the digests _get_session_id can return
SessionIds == {"sha-a", "sha-b"}
\* the wall-clock readings datetime.now() can return, in seconds
Nows == {86399}
\* the whole seconds np.random.pareto(a) can add to the clock: the draw is a
\* non-negative real, and a timedelta of less than half a microsecond is zero
ParetoSeconds == {0, 1}
\* the start_time arguments callers pass to session_clickstream
StartTimes == { <<"-", "1", "m">>, <<"1", "x">> }
\* the max_user_id, max_product_code and max_order_id arguments callers pass
UserIdLimits == {1}
ProductCodeLimits == {2}
OrderIdLimits == {1}

VARIABLES
    weighted_events,        \* the module-level table, shared by all calls
    loaded_events,          \* the table as it was loaded (never assigned)
    pc,                     \* where the current call stands
    rand_session_max_size, max_product_code, max_order_id, max_user_id,
    start_time,             \* arguments
    session_events, user_id, user_agent, session_id, ip, channel_type,
    random_session_size, start_offset_seconds, now, current_event_time,
    unique_session_events, product_codes, s,               \* locals
    error,                  \* the exception the call ended with, or "none"
    trace,                  \* per iteration: the draw and what it did to user_id
    interval, parse_result  \* a direct call of _parse_time_interval

args == <<rand_session_max_size, max_product_code, max_order_id, max_user_id, start_time>>
statics == <<user_id, user_agent, session_id, ip, channel_type, random_session_size>>
clock == <<start_offset_seconds, now, current_event_time>>
loopvars == <<unique_session_events, product_codes, s>>
parsevars == <<interval, parse_result>>
vars == <<weighted_events, loaded_events, pc, args, session_events, statics,
          clock, loopvars, error, trace, parsevars>>

\* the module is imported with one of the tables of catalogs; no call yet
Loaded(catalogs) ==
    /\ weighted_events \in catalogs
    /\ loaded_events = weighted_events
    /\ pc = "idle"
    /\ rand_session_max_size = -1 /\ max_product_code = -1 /\ max_order_id = -1
    /\ max_user_id = -1 /\ start_time = <<>>
    /\ session_events = <<>>
    /\ user_id = -1 /\ user_agent = "" /\ session_id = "" /\ ip = ""
    /\ channel_type = "" /\ random_session_size = -1
    /\ start_offset_seconds = 0 /\ now = -1 /\ current_event_time = -1
    /\ unique_session_events = {} /\ product_codes = {} /\ s = 0
    /\ error = "none"
    /\ trace = <<>>
    /\ interval = <<>>
    /\ parse_result = [state |-> "none"]

Init == Loaded(Catalogs)

InitOrder == Loaded(OrderCatalogs)

(***************************************************************************)
(* Primitive generators (clickstream.py 201-291)                           *)
(***************************************************************************)
\* randint(start, end): the values the draw can return; empty when it raises
_get_user_id(start, end) == start..end
_get_product_code(max_value) == 1..max_value
_get_order_id(max_value) == 1..max_value
\* mutant: the population starts at 0
QuantityFromZero == {0, 1, 2, 3, 4, 5}
_get_quantity == {1, 2, 3, 4, 5}
_get_ip == ip_list
_get_channel == channel
_get_session_id == SessionIds

\* strftime("%d/%m/%Y %H:%M:%S.%f") of a time in whole seconds: the date as a
\* day number, then hours, minutes, seconds; the microseconds are zero
_format_time(t) ==
    [date |-> t \div 86400, H |-> (t % 86400) \div 3600,
     M |-> (t % 3600) \div 60, S |-> t % 60, f |-> 0]

(***************************************************************************)
(* session_clickstream (clickstream.py 53-167)                             *)
(***************************************************************************)
\* weighted_event: random.choices returns one element of the shared list
\* itself, so the caller holds the entry at index i, not a copy of it
weighted_event == {i \in DOMAIN weighted_events : weighted_events[i].popularity > 0}

\* mutant: the guest-checkout half of the condition is missing
DiscardRepeatedOnly(name, seen, uid) ==
    IF name = "Login" /\ name \in seen THEN "Search" ELSE name

\* lines 95-100: a repeated Login, or a guest checkout by a known user
DiscardRepeatedOrGuest(name, seen, uid) ==
    IF (name = "Login" /\ name \in seen) \/ (name = "CheckoutAsGuest" /\ uid # 0)
    THEN "Search"
    ELSE name

\* mutant: every Login draws a user id again, anonymous included
RegenerateOnEveryLogin(name, uid, end) ==
    IF name = "Login" THEN _get_user_id(0, end) ELSE {uid}

\* lines 102-104: the user ids the step can continue with
RegenerateUserId(name, uid, end) ==
    IF name = "Login" /\ uid = 0 THEN _get_user_id(1, end) ELSE {uid}

\* mutant: the Logout half of the condition is missing
DiscardLoginOnly(name, uid) ==
    IF name = "Login" /\ uid # 0 THEN "Search" ELSE name

\* lines 106-108: a Login by a known user, or a Logout by an anonymous one
DiscardLoginOrLogout(name, uid) ==
    IF (name = "Login" /\ uid # 0) \/ (name = "Logout" /\ uid = 0)
    THEN "Search"
    ELSE name

\* mutant: the rules of lines 95-108 are not applied
NameKeptAsDrawn(name, seen, uid_before, uid_after) == name

\* lines 95-108 together: the name that line 111 adds to the seen set, from
\* the name drawn, the user id before line 102 and the user id after it
NameBeforeDependencies(name, seen, uid_before, uid_after) ==
    DiscardLoginOrLogout(DiscardRepeatedOrGuest(name, seen, uid_before), uid_after)

\* mutant: the dependency rule is never evaluated
DependenciesIgnored(name, event, seen) == name

\* lines 114-122: the name after the dependency check against seen
HandleDependencies(name, event, seen) ==
    IF Len(event.dependsOn) > 0
    THEN LET list_check == [k \in DOMAIN event.dependsOn |-> event.dependsOn[k] \in seen]
             f == IF event.dependencyFilter = "all"
                  THEN \A k \in DOMAIN list_check : list_check[k]
                  ELSE \E k \in DOMAIN list_check : list_check[k]
         IN  IF ~f THEN "Search" ELSE name
    ELSE name

\* mutant: a completed order removes nothing
NothingRemoved(name, seen) == seen

\* lines 125-131
AfterCompleteOrder(name, seen) ==
    IF name = "CompleteOrder"
    THEN seen \ {"Checkout", "CheckoutAsGuest", "DecreaseQuantity"}
    ELSE seen

\* mutant: the chosen code is stored but stays in product_codes
RemoveProductKept(codes) ==
    IF Cardinality(codes) > 0
    THEN {[metadata |-> [product_id |-> random_delete],
           product_codes |-> codes] : random_delete \in codes}
    ELSE {[metadata |-> <<>>, product_codes |-> codes]}

\* mutant: with nothing to delete the product_id key is still stored
RemoveProductAlways(codes) ==
    IF Cardinality(codes) > 0
    THEN {[metadata |-> [product_id |-> random_delete],
           product_codes |-> codes \ {random_delete}] : random_delete \in codes}
    ELSE {[metadata |-> [product_id |-> 0], product_codes |-> codes]}

\* lines 147-150: what a DeleteFromCart stores, and the product_codes it leaves
RemoveProduct(codes) ==
    IF Cardinality(codes) > 0
    THEN {[metadata |-> [product_id |-> random_delete],
           product_codes |-> codes \ {random_delete}] : random_delete \in codes}
    ELSE {[metadata |-> <<>>, product_codes |-> codes]}

\* lines 134-153: every metadata object the step can build for the final
\* name, with the product_codes it leaves
FillMetadata(name, codes, product_max, order_max) ==
    CASE name = "Search" ->
            {[metadata |-> [query |-> q], product_codes |-> codes] :
                q \in UNION {{mobile_phones[k].model_name, mobile_phones[k].brand_name,
                              mobile_phones[k].os} : k \in DOMAIN mobile_phones}}
      [] name \in {"AddToCart", "IncreaseQuantity"} ->
            {[metadata |-> [product_id |-> p, quantity |-> q],
              product_codes |-> codes \cup {p}] :
                p \in _get_product_code(product_max), q \in _get_quantity}
      [] name = "DeleteFromCart" -> RemoveProduct(codes)
      [] name = "CheckOrderStatus" ->
            {[metadata |-> [order_id |-> o], product_codes |-> codes] :
                o \in _get_order_id(order_max)}
      [] OTHER -> {[metadata |-> <<>>, product_codes |-> codes]}

\* mutant: two of the static values are stored under each other's key
EventRecordSwapped(r_ip, r_uid, r_agent, r_sid, event_time, event_name, r_chan, metadata) ==
    [ip |-> r_ip, user_id |-> r_uid, user_agent |-> r_chan,
     session_id |-> r_sid, event_time |-> event_time,
     event_name |-> event_name, channel |-> r_agent, metadata |-> metadata]

\* lines 156-165
EventRecord(r_ip, r_uid, r_agent, r_sid, event_time, event_name, r_chan, metadata) ==
    [ip |-> r_ip, user_id |-> r_uid, user_agent |-> r_agent,
     session_id |-> r_sid, event_time |-> event_time,
     event_name |-> event_name, channel |-> r_chan, metadata |-> metadata]

\* lines 88-90: the seconds the clock can advance by in iteration step
ParetoOffsets(step, size) == IF step < size - 1 THEN ParetoSeconds ELSE {0}

\* mutant: the offset is subtracted
RewindClock(t, pareto_offset) == t - pareto_offset

\* line 90: current_event_time + timedelta(seconds=pareto_offset)
AdvanceClock(t, pareto_offset) == t + pareto_offset

\* mutant: the loop has no bound
LoopNeverStops(step, size) == TRUE

\* mutant: the loop stops one iteration early
LoopStopsEarly(step, size) == step < size - 1

\* line 83: for s in range(random_session_size)
LoopContinues(step, size) == step < size

\* mutant: a session of no event is a value the draw can return
DrawSessionSizeFromZero(max_size) == 0..max_size

\* line 73: randint(1, rand_session_max_size), which raises on an empty range
DrawSessionSize(max_size) == 1..max_size

\* lines 66-73: the call starts; its static values are drawn.  The id limits
\* are at least 1 (with max_user_id = 0 line 104 would raise) and the Pareto
\* shape is positive; rand_session_max_size may be 0, and then line 73 raises.
Begin ==
    /\ pc = "idle"
    /\ rand_session_max_size' \in 0..MaxSessionSize
    /\ max_product_code' \in ProductCodeLimits
    /\ max_order_id' \in OrderIdLimits
    /\ max_user_id' \in UserIdLimits
    /\ start_time' \in StartTimes
    /\ session_events' = <<>>
    /\ user_id' \in _get_user_id(0, max_user_id')
    /\ user_agent' \in user_agents
    /\ session_id' \in _get_session_id
    /\ ip' \in _get_ip
    /\ channel_type' \in _get_channel
    /\ IF DrawSessionSize(rand_session_max_size') # {}
       THEN /\ random_session_size' \in DrawSessionSize(rand_session_max_size')
            /\ pc' = "drawn"
            /\ error' = "none"
       ELSE \* randint(1, n) with n < 1 raises
            /\ random_session_size' = -1
            /\ pc' = "failed"
            /\ error' = "ValueError: empty range"
    /\ start_offset_seconds' = 0 /\ now' = -1 /\ current_event_time' = -1
    /\ unique_session_events' = {} /\ product_codes' = {} /\ s' = 0
    /\ trace' = <<>>
    /\ UNCHANGED <<weighted_events, loaded_events, parsevars>>

\* lines 76-81: start_time is parsed and the clock is set
ParseStartTime ==
    /\ pc = "drawn"
    /\ LET outcome == _parse_time_interval(start_time)
       IN  IF outcome.raised
           THEN /\ pc' = "failed"
                /\ error' = "ValueError: Invalid time interval format"
                /\ UNCHANGED clock
           ELSE /\ pc' = "loop"
                /\ error' = "none"
                /\ start_offset_seconds' = outcome.seconds
                /\ now' \in Nows
                /\ current_event_time' = now' + outcome.seconds
    /\ unique_session_events' = {} /\ product_codes' = {} /\ s' = 0
    /\ UNCHANGED <<weighted_events, loaded_events, args, session_events,
                   statics, trace, parsevars>>

\* lines 83-166: one iteration of the loop
Step ==
    /\ pc = "loop"
    /\ LoopContinues(s, random_session_size)
    /\ \E pareto_offset \in ParetoOffsets(s, random_session_size), i \in weighted_event :
         LET event == weighted_events[i]
             event_time == _format_time(current_event_time)
             name1 == DiscardRepeatedOrGuest(event.name, unique_session_events, user_id)
         IN  \E uid \in RegenerateUserId(name1, user_id, max_user_id) :
               LET name2 == NameBeforeDependencies(event.name, unique_session_events,
                                                   user_id, uid)
                   seen1 == unique_session_events \cup {name2}
                   name3 == HandleDependencies(name2, event, seen1)
                   seen2 == AfterCompleteOrder(name3, seen1)
               IN  \E filled \in FillMetadata(name3, product_codes, max_product_code, max_order_id) :
                     /\ current_event_time' = AdvanceClock(current_event_time, pareto_offset)
                     /\ weighted_events' = [weighted_events EXCEPT ![i].name = name3]
                     /\ user_id' = uid
                     /\ unique_session_events' = seen2
                     /\ product_codes' = filled.product_codes
                     /\ session_events' =
                          Append(session_events,
                                 EventRecord(ip, uid, user_agent, session_id, event_time,
                                             name3, channel_type, filled.metadata))
                     /\ trace' = Append(trace, [index |-> i, candidate |-> event.name,
                                                user_id_before |-> user_id,
                                                user_id_after |-> uid,
                                                seen_before |-> unique_session_events,
                                                added |-> name2,
                                                seen_after |-> seen2,
                                                codes_before |-> product_codes])
    /\ s' = s + 1
    /\ UNCHANGED <<loaded_events, pc, args, user_agent, session_id, ip,
                   channel_type, random_session_size, start_offset_seconds, now,
                   error, parsevars>>

\* line 167: the loop is over and the list is returned
Return ==
    /\ pc = "loop"
    /\ ~LoopContinues(s, random_session_size)
    /\ pc' = "done"
    /\ UNCHANGED <<weighted_events, loaded_events, args, session_events,
                   statics, clock, loopvars, error, trace, parsevars>>

\* the caller is done with the outcome of the call: the frame and its locals
\* are gone, the module-level table stays as the call left it
Release ==
    /\ pc \in {"done", "failed"}
    /\ pc' = "idle"
    /\ rand_session_max_size' = -1 /\ max_product_code' = -1 /\ max_order_id' = -1
    /\ max_user_id' = -1 /\ start_time' = <<>>
    /\ session_events' = <<>>
    /\ user_id' = -1 /\ user_agent' = "" /\ session_id' = "" /\ ip' = ""
    /\ channel_type' = "" /\ random_session_size' = -1
    /\ start_offset_seconds' = 0 /\ now' = -1 /\ current_event_time' = -1
    /\ unique_session_events' = {} /\ product_codes' = {} /\ s' = 0
    /\ error' = "none"
    /\ trace' = <<>>
    /\ UNCHANGED <<weighted_events, loaded_events, parsevars>>

Next == Begin \/ ParseStartTime \/ Step \/ Return \/ Release

Spec == Init /\ [][Next]_vars

(***************************************************************************)
(* _parse_time_interval called on its own, on every string up to MaxLen    *)
(***************************************************************************)
ParseCall ==
    /\ parse_result.state = "none"
    /\ interval' \in Strings
    /\ parse_result' = [state |-> "called"]
    /\ UNCHANGED <<weighted_events, loaded_events, pc, args, session_events,
                   statics, clock, loopvars, error, trace>>

ParseReturn ==
    /\ parse_result.state = "called"
    /\ LET outcome == _parse_time_interval(interval)
       IN  parse_result' = [state |-> IF outcome.raised THEN "raised" ELSE "returned",
                            seconds |-> outcome.seconds]
    /\ UNCHANGED <<weighted_events, loaded_events, pc, args, session_events,
                   statics, clock, loopvars, error, trace, interval>>

NextParse == ParseCall \/ ParseReturn

SpecParse == Init /\ [][NextParse]_vars

(***************************************************************************)
(* The same calls on the order and quantity catalogs                       *)
(***************************************************************************)
SpecOrder == InitOrder /\ [][Next]_vars

\* a call that has started runs on to its return or its exception: nothing
\* suspends it between two statements
InitFair == Loaded({OrderCatalog})

SpecFair ==
    /\ InitFair
    /\ [][Next]_vars
    /\ WF_vars(ParseStartTime) /\ WF_vars(Step) /\ WF_vars(Return)

(***************************************************************************)
(* What the claims speak of                                                *)
(***************************************************************************)
\* the interval format as documented: an optional sign, one or more digits,
\* one unit letter, and nothing else
WellFormed(str) ==
    \E signed \in {0, 1} :
        /\ Len(str) >= signed + 2
        /\ signed = 1 => str[1] \in {"+", "-"}
        /\ \A k \in (signed + 1)..(Len(str) - 1) : str[k] \in {"0", "1"}
        /\ str[Len(str)] \in {"s", "m", "h", "d"}

RECURSIVE Magnitude(_, _, _)
Magnitude(str, k, acc) ==
    IF k >= Len(str) THEN acc
    ELSE Magnitude(str, k + 1, 10 * acc + (IF str[k] = "1" THEN 1 ELSE 0))

\* sign * magnitude * multiplier of a well-formed interval
ExpectedSeconds(str) ==
    LET negative == str[1] = "-"
        start == IF str[1] \in {"+", "-"} THEN 2 ELSE 1
        letter == str[Len(str)]
        multiplier == IF letter = "s" THEN 1 ELSE IF letter = "m" THEN 60
                      ELSE IF letter = "h" THEN 3600 ELSE 86400
        amount == Magnitude(str, start, 0) * multiplier
    IN  IF negative THEN 0 - amount ELSE amount

\* the instant a formatted event_time denotes
TimeOf(event_time) ==
    event_time.date * 86400 + event_time.H * 3600 + event_time.M * 60 + event_time.S

Records == DOMAIN session_events
NamesBefore(k) == {session_events[j].event_name : j \in 1..(k - 1)}
\* an earlier iteration of this session turned user_id from 0 into a real id
PromotedBefore(k) ==
    \E j \in 1..(k - 1) : trace[j].user_id_before = 0 /\ trace[j].user_id_after # 0
\* some record of the session does not carry the name that was drawn for it
SomeSubstitution ==
    \E k \in Records : trace[k].candidate # session_events[k].event_name

\* C1: a call with rand_session_max_size >= 1 and a well-formed start_time does
\* not fail, and the list it returns has exactly random_session_size records,
\* a number between 1 and rand_session_max_size (so exactly one record when
\* rand_session_max_size is 1), whatever was substituted.
C1_SessionLength ==
    /\ pc = "failed" => (rand_session_max_size < 1 \/ ~WellFormed(start_time))
    /\ pc = "done" =>
          /\ Len(session_events) = random_session_size
          /\ 1 <= Len(session_events)
          /\ Len(session_events) <= rand_session_max_size
          /\ rand_session_max_size = 1 => Len(session_events) = 1

C1_Witness ==
    /\ pc = "done"
    /\ rand_session_max_size = 1
    /\ Len(session_events) = 1
    /\ SomeSubstitution

\* C2: along the records of a session the instants the event_time strings
\* denote never decrease, the first record carries now + the seconds of
\* start_time, and no iteration moves the clock backwards.
C2_EventTimeMonotonic ==
    /\ [](/\ \A k \in Records : k > 1 =>
                TimeOf(session_events[k].event_time)
                    >= TimeOf(session_events[k - 1].event_time)
          /\ Len(session_events) >= 1 =>
                session_events[1].event_time
                    = _format_time(now + ExpectedSeconds(start_time)))
    /\ [][pc = "loop" /\ pc' = "loop" => current_event_time' >= current_event_time]_vars

C2_Witness ==
    /\ pc = "done"
    /\ Len(session_events) = 2
    /\ TimeOf(session_events[2].event_time) > TimeOf(session_events[1].event_time)
    /\ session_events[2].event_time.M # session_events[1].event_time.M

\* C3: no session holds more than one record named Login.
C3_AtMostOneLogin ==
    Cardinality({k \in Records : session_events[k].event_name = "Login"}) <= 1

C3_Witness ==
    /\ pc = "done"
    /\ Len(session_events) = 2
    /\ trace[1].candidate = "Login"
    /\ trace[1].user_id_before = 0
    /\ trace[2].index = trace[1].index

\* C4 as stated: before every Logout record some earlier iteration of the
\* session turned user_id from 0 into a nonzero id.
C4_LogoutAfterLoginStep ==
    \A k \in Records :
        session_events[k].event_name = "Logout" => PromotedBefore(k)

\* C4 amended: every Logout record carries a nonzero user_id, which was either
\* drawn nonzero when the session started or set by an earlier iteration that
\* turned it from 0 into a nonzero id; no Logout appears while user_id is 0.
C4_LogoutOnlyWhenKnown ==
    \A k \in Records :
        session_events[k].event_name = "Logout" =>
            /\ session_events[k].user_id # 0
            /\ trace[k].user_id_before # 0
            /\ trace[1].user_id_before # 0 \/ PromotedBefore(k)

C4_Witness ==
    /\ pc = "done"
    /\ \E k \in Records :
          /\ session_events[k].event_name = "Logout"
          /\ trace[1].user_id_before = 0
          /\ PromotedBefore(k)

\* C5: every CheckoutAsGuest record carries user_id 0, and no record before it
\* in the session carries a nonzero user_id: once user_id is nonzero, by the
\* initial draw or by a promotion, no later record is a CheckoutAsGuest.
C5_GuestCheckoutOnlyAnonymous ==
    \A k \in Records :
        session_events[k].event_name = "CheckoutAsGuest" =>
            /\ session_events[k].user_id = 0
            /\ \A j \in 1..k : session_events[j].user_id = 0 /\ trace[j].user_id_before = 0

C5_Witness ==
    /\ pc = "done"
    /\ \E k \in Records : session_events[k].event_name = "CheckoutAsGuest"

\* C6: no call modifies the catalog: every entry of weighted_events keeps the
\* name, popularity, dependsOn and dependencyFilter it was loaded with.
C6_CatalogUnchanged ==
    /\ DOMAIN weighted_events = DOMAIN loaded_events
    /\ \A i \in DOMAIN weighted_events :
          /\ weighted_events[i].name = loaded_events[i].name
          /\ weighted_events[i].popularity = loaded_events[i].popularity
          /\ weighted_events[i].dependsOn = loaded_events[i].dependsOn
          /\ weighted_events[i].dependencyFilter = loaded_events[i].dependencyFilter

\* C7: a DeleteFromCart record with no AddToCart or IncreaseQuantity record
\* before it in the session has empty metadata, and the loop does not fail.
C7_DeleteWithoutAdd ==
    /\ \A k \in Records :
          (/\ session_events[k].event_name = "DeleteFromCart"
           /\ NamesBefore(k) \cap {"AddToCart", "IncreaseQuantity"} = {})
             => DOMAIN session_events[k].metadata = {}
    /\ pc = "failed" => Len(session_events) = 0

C7_Witness ==
    /\ pc = "done"
    /\ \E k \in Records :
          /\ session_events[k].event_name = "DeleteFromCart"
          /\ NamesBefore(k) \cap {"AddToCart", "IncreaseQuantity"} = {}

\* C8: _parse_time_interval returns sign * magnitude * multiplier for every
\* string made of an optional sign, digits and one unit letter, and raises
\* for every other string.
C8_ParseContract ==
    parse_result.state \in {"returned", "raised"} =>
        IF WellFormed(interval)
        THEN parse_result.state = "returned"
             /\ parse_result.seconds = ExpectedSeconds(interval)
        ELSE parse_result.state = "raised"

\* C9: when start_time is malformed the call fails before anything of the
\* session has been drawn or emitted.
C9_FailsBeforeAnyDraw ==
    (pc = "failed" /\ ~WellFormed(start_time)) =>
        /\ user_id = -1
        /\ session_id = ""
        /\ ip = ""
        /\ channel_type = ""
        /\ random_session_size = -1
        /\ session_events = <<>>

\* C10: every record of a session carries the ip, user_agent, session_id and
\* channel the call drew before the loop, so all records agree on them.
C10_StaticValuesConstant ==
    \A k \in Records :
        /\ session_events[k].ip = ip
        /\ session_events[k].user_agent = user_agent
        /\ session_events[k].session_id = session_id
        /\ session_events[k].channel = channel_type

C10_Witness ==
    /\ pc = "done"
    /\ Len(session_events) = 2
    /\ ip # "" /\ user_agent # "" /\ session_id # "" /\ channel_type # ""
    /\ session_events[1].ip = session_events[2].ip

\* the keys of a record's metadata, and the final name of record k
Keys(k) == DOMAIN session_events[k].metadata
NameOf(k) == session_events[k].event_name
AddNames == {"AddToCart", "IncreaseQuantity"}

\* C11: the keys of every record's metadata are those of its final name:
\* Search has query; AddToCart and IncreaseQuantity have product_id in
\* [1, max_product_code] and quantity in 1..5; CheckOrderStatus has order_id in
\* [1, max_order_id]; DeleteFromCart has product_id or nothing; every other
\* name has nothing.  Records renamed to Search are Search records.
C11_MetadataKeys ==
    \A k \in Records :
        LET m == session_events[k].metadata
        IN  CASE NameOf(k) = "Search" -> Keys(k) = {"query"}
              [] NameOf(k) \in AddNames ->
                    /\ Keys(k) = {"product_id", "quantity"}
                    /\ m.product_id \in 1..max_product_code
                    /\ m.quantity \in 1..5
              [] NameOf(k) = "CheckOrderStatus" ->
                    /\ Keys(k) = {"order_id"}
                    /\ m.order_id \in 1..max_order_id
              [] NameOf(k) = "DeleteFromCart" ->
                    Keys(k) = {"product_id"} \/ Keys(k) = {}
              [] OTHER -> Keys(k) = {}

C11_Witness ==
    /\ pc = "done"
    /\ \E k \in Records :
          NameOf(k) = "Search" /\ trace[k].candidate # "Search" /\ Keys(k) = {"query"}
    /\ \E k \in Records : NameOf(k) = "IncreaseQuantity"

\* the product ids added by records 1..n and not deleted by a later record
\* of 1..n
Active(n) ==
    {p \in 1..max_product_code :
        \E j \in 1..n :
            /\ NameOf(j) \in AddNames
            /\ session_events[j].metadata.product_id = p
            /\ \A d \in (j + 1)..n :
                  ~(/\ NameOf(d) = "DeleteFromCart"
                    /\ Keys(d) = {"product_id"}
                    /\ session_events[d].metadata.product_id = p)}

\* product_codes as iteration k left it
CodesAfter(k) ==
    IF k < Len(trace) THEN trace[k + 1].codes_before ELSE product_codes

Resettable == {"Checkout", "CheckoutAsGuest", "DecreaseQuantity"}

RECURSIVE AloneNames(_, _, _, _)
AloneNames(table, seen, uid, k) ==
    IF k > Len(trace) THEN <<>>
    ELSE LET i == trace[k].index
             event == table[i]
             name1 == DiscardRepeatedOrGuest(event.name, seen, uid)
             new_uid == CHOOSE u \in RegenerateUserId(name1, uid, max_user_id) : TRUE
             name2 == NameBeforeDependencies(event.name, seen, uid, new_uid)
             seen1 == seen \cup {name2}
             name3 == HandleDependencies(name2, event, seen1)
         IN  <<name3>> \o AloneNames([table EXCEPT ![i].name = name3],
                                     AfterCompleteOrder(name3, seen1), new_uid, k + 1)

\* C12: what a call returns depends only on its arguments and its own draws:
\* run after other calls, its records carry the names it would have produced
\* alone, on the catalog as loaded, with the same draws.
C12_IndependentOfOtherCalls ==
    pc = "done" =>
        \A k \in Records :
            NameOf(k) = AloneNames(loaded_events, {}, trace[1].user_id_before, 1)[k]

\* whether the dependency rule of the entry drawn in iteration k is empty or
\* satisfied by the set seen
DependsOnOf(k) == loaded_events[trace[k].index].dependsOn
FilterOf(k) == loaded_events[trace[k].index].dependencyFilter
Satisfied(k, seen) ==
    IF FilterOf(k) = "all"
    THEN \A d \in DOMAIN DependsOnOf(k) : DependsOnOf(k)[d] \in seen
    ELSE \E d \in DOMAIN DependsOnOf(k) : DependsOnOf(k)[d] \in seen

\* C13: a Login drawn while Login is not in the seen set and user_id is 0 is
\* not renamed: user_id is redrawn in [1, max_user_id] and, its dependency rule
\* being empty or satisfied, the record is a Login carrying the new user_id.
C13_LoginPromotes ==
    \A k \in Records :
        (/\ trace[k].candidate = "Login"
         /\ "Login" \notin trace[k].seen_before
         /\ trace[k].user_id_before = 0)
           => /\ trace[k].user_id_after \in 1..max_user_id
              /\ (Len(DependsOnOf(k)) = 0 \/ Satisfied(k, trace[k].seen_before)) =>
                    /\ NameOf(k) = "Login"
                    /\ session_events[k].user_id = trace[k].user_id_after

\* C14: the name an iteration adds to the seen set is the final name of its
\* record, so every name in the seen set is the name of a record emitted.
C14_SeenNamesAreEmitted ==
    /\ \A k \in Records : trace[k].added = NameOf(k)
    /\ pc \in {"loop", "done"} =>
          unique_session_events \subseteq {NameOf(k) : k \in Records}

C18_LoopTerminates ==
    /\ [](pc \in {"loop", "done"} =>
            /\ Len(trace) = s
            /\ Len(session_events) = s
            /\ s <= random_session_size
            /\ pc = "done" => s = random_session_size)
    /\ [][pc = "loop" =>
            \/ /\ pc' = "loop"
               /\ s' = s + 1
               /\ Len(trace') = Len(trace) + 1
               /\ Len(session_events') = Len(session_events) + 1
            \/ /\ pc' = "done"
               /\ s = random_session_size
               /\ UNCHANGED <<session_events, trace>>]_vars
    /\ (pc = "loop" ~> pc = "done")

C18_Witness ==
    /\ pc = "done"
    /\ s = 2
    /\ random_session_size = 2
    /\ \E k \in Records : trace[k].candidate # NameOf(k)

\* C19: within a session user_id changes at most once, from 0 to a value in
\* [1, max_user_id], in an iteration that drew Login; a nonzero user_id is
\* never changed, and every record carries the user_id its iteration left.
C19_UserIdChangesOnce ==
    /\ \A k \in Records :
          /\ session_events[k].user_id = trace[k].user_id_after
          /\ k > 1 => trace[k].user_id_before = trace[k - 1].user_id_after
          /\ trace[k].user_id_before # 0 =>
                trace[k].user_id_after = trace[k].user_id_before
          /\ trace[k].user_id_after # trace[k].user_id_before =>
                /\ trace[k].user_id_before = 0
                /\ trace[k].user_id_after \in 1..max_user_id
                /\ trace[k].candidate = "Login"
          /\ session_events[k].user_id = 0 => ~PromotedBefore(k + 1)
    /\ Cardinality({k \in Records :
                     trace[k].user_id_after # trace[k].user_id_before}) <= 1
    /\ (pc \in {"loop", "done"} /\ Len(trace) > 0) =>
          user_id = trace[Len(trace)].user_id_after

C19_Witness ==
    /\ pc = "done"
    /\ Len(session_events) = 2
    /\ trace[1].user_id_before = 0
    /\ trace[1].user_id_after # 0
    /\ NameOf(2) = "Logout"
    /\ session_events[2].user_id = trace[1].user_id_after

\* C20: with rand_session_max_size below 1 the call has one policy: it fails
\* with an error; it returns no list, empty or otherwise.
C20_RejectsEmptyRange ==
    /\ (pc # "idle" /\ rand_session_max_size < 1) =>
          /\ pc = "failed"
          /\ error = "ValueError: empty range"
          /\ session_events = <<>>
    /\ pc = "done" => Len(session_events) >= 1

C20_Witness ==
    /\ rand_session_max_size = 0
    /\ pc = "failed"
    /\ error = "ValueError: empty range"

====
